---------------------------- MODULE Spec2Model ----------------------------
(***************************************************************************)
(* Model of the CV extraction core of backend/services/ai_processor.py:   *)
(* AIProcessor.process_cv_to_json, _process_cv_single_request,            *)
(* _call_openrouter_api, _parse_ai_response and the text functions they   *)
(* use.                                                                    *)
(*                                                                         *)
(* A text is a sequence of one-character strings.  The three key names    *)
(* the code looks for are shortened to one letter to keep texts short:    *)
(* personal_information -> p, first_name -> f, last_name -> l.            *)
(***************************************************************************)
EXTENDS Integers, Sequences, FiniteSets, TLC

LB == "{"
RB == "}"
LK == "["
RK == "]"
QT == "\""
CO == ":"
CM == ","
SP == " "

PERSONAL_INFORMATION == <<"p">>
FIRST_NAME == <<"f">>
LAST_NAME == <<"l">>

Max(S) == CHOOSE x \in S : \A y \in S : y <= x
Min(S) == CHOOSE x \in S : \A y \in S : x <= y

(***************************************************************************)
(* Python string primitives used by the code.                              *)
(***************************************************************************)
\* str.strip(): leading and trailing whitespace removed
Strip(t) ==
    LET S == {i \in 1..Len(t) : t[i] # SP}
    IN  IF S = {} THEN << >> ELSE SubSeq(t, Min(S), Max(S))

\* str.rstrip(): trailing whitespace removed
RStrip(t) ==
    LET S == {i \in 1..Len(t) : t[i] # SP}
    IN  IF S = {} THEN << >> ELSE SubSeq(t, 1, Max(S))

\* str.rstrip(','): trailing commas removed
RStripComma(t) ==
    LET S == {i \in 1..Len(t) : t[i] # CM}
    IN  IF S = {} THEN << >> ELSE SubSeq(t, 1, Max(S))

\* str.count(c), over the first n characters
CountUpTo(t, c, n) == Cardinality({i \in 1..n : t[i] = c})
Count(t, c) == CountUpTo(t, c, Len(t))

\* c repeated n times; nothing when n <= 0 (range(n) of a negative n is empty)
Repeat(c, n) == IF n <= 0 THEN << >> ELSE [i \in 1..n |-> c]

\* needle in t (substring test)
Contains(t, needle) ==
    \E i \in 1..(Len(t) - Len(needle) + 1) :
        SubSeq(t, i, i + Len(needle) - 1) = needle

\* str.endswith(c) for a one-character c
EndsWith(t, c) == Len(t) > 0 /\ t[Len(t)] = c

(***************************************************************************)
(* json.loads, for the JSON subset of objects, arrays, strings without    *)
(* escapes, non-negative integers and null.  A parsed value is a record    *)
(* [t, s, kv]: t the type, s the characters of a string or number, kv the *)
(* members of an object (key k, value v) or the elements of an array;     *)
(* JNone is Python's None.                                                 *)
(***************************************************************************)
Digits == {"0", "1"}

JStr(s) == [t |-> "str", s |-> s, kv |-> << >>]
JNum(s) == [t |-> "num", s |-> s, kv |-> << >>]
JObj(kv) == [t |-> "obj", s |-> << >>, kv |-> kv]
JArr(kv) == [t |-> "arr", s |-> << >>, kv |-> kv]
JNone == [t |-> "none", s |-> << >>, kv |-> << >>]

ParseFail == [ok |-> FALSE, v |-> JNone, n |-> 0]

\* first position >= i that holds no whitespace (Len(t)+1 at the end)
SkipWs(t, i) == Min({j \in i..(Len(t) + 1) : j = Len(t) + 1 \/ t[j] # SP})

ParseString(t, i) ==
    LET S == {j \in (i + 1)..Len(t) : t[j] = QT}
    IN  IF S = {} THEN ParseFail
        ELSE [ok |-> TRUE, v |-> JStr(SubSeq(t, i + 1, Min(S) - 1)), n |-> Min(S) + 1]

ParseNumber(t, i) ==
    LET e == Max({j \in i..Len(t) : \A k \in i..j : t[k] \in Digits})
    IN  IF t[i] = "0"
        THEN [ok |-> TRUE, v |-> JNum(<<"0">>), n |-> i + 1]
        ELSE [ok |-> TRUE, v |-> JNum(SubSeq(t, i, e)), n |-> e + 1]

RECURSIVE ParseValue(_, _), ParseMembers(_, _, _), ParseElements(_, _, _)

ParseValue(t, i) ==
    IF i > Len(t) THEN ParseFail
    ELSE IF t[i] = QT THEN ParseString(t, i)
    ELSE IF t[i] \in Digits THEN ParseNumber(t, i)
    ELSE IF t[i] = "n" THEN
        IF i + 3 <= Len(t) /\ SubSeq(t, i, i + 3) = <<"n", "u", "l", "l">>
        THEN [ok |-> TRUE, v |-> JNone, n |-> i + 4]
        ELSE ParseFail
    ELSE IF t[i] = LB THEN
        LET j == SkipWs(t, i + 1)
        IN  IF j <= Len(t) /\ t[j] = RB
            THEN [ok |-> TRUE, v |-> JObj(<< >>), n |-> j + 1]
            ELSE ParseMembers(t, j, << >>)
    ELSE IF t[i] = LK THEN
        LET j == SkipWs(t, i + 1)
        IN  IF j <= Len(t) /\ t[j] = RK
            THEN [ok |-> TRUE, v |-> JArr(<< >>), n |-> j + 1]
            ELSE ParseElements(t, j, << >>)
    ELSE ParseFail

ParseMembers(t, i, acc) ==
    IF i > Len(t) \/ t[i] # QT THEN ParseFail
    ELSE
        LET key == ParseString(t, i)
        IN  IF ~key.ok THEN ParseFail
            ELSE
                LET c == SkipWs(t, key.n)
                IN  IF c > Len(t) \/ t[c] # CO THEN ParseFail
                    ELSE
                        LET r == ParseValue(t, SkipWs(t, c + 1))
                        IN  IF ~r.ok THEN ParseFail
                            ELSE
                                LET d == SkipWs(t, r.n)
                                    acc2 == Append(acc, [k |-> key.v.s, v |-> r.v])
                                IN  IF d > Len(t) THEN ParseFail
                                    ELSE IF t[d] = RB
                                        THEN [ok |-> TRUE, v |-> JObj(acc2), n |-> d + 1]
                                    ELSE IF t[d] = CM
                                        THEN ParseMembers(t, SkipWs(t, d + 1), acc2)
                                    ELSE ParseFail

ParseElements(t, i, acc) ==
    LET r == ParseValue(t, i)
    IN  IF ~r.ok THEN ParseFail
        ELSE
            LET d == SkipWs(t, r.n)
                acc2 == Append(acc, [k |-> << >>, v |-> r.v])
            IN  IF d > Len(t) THEN ParseFail
                ELSE IF t[d] = RK
                    THEN [ok |-> TRUE, v |-> JArr(acc2), n |-> d + 1]
                ELSE IF t[d] = CM
                    THEN ParseElements(t, SkipWs(t, d + 1), acc2)
                ELSE ParseFail

\* json.loads(t): [ok, v]; ok is FALSE where json.loads raises JSONDecodeError
JsonLoads(t) ==
    LET r == ParseValue(t, SkipWs(t, 1))
    IN  IF r.ok /\ SkipWs(t, r.n) = Len(t) + 1
        THEN [ok |-> TRUE, v |-> r.v]
        ELSE [ok |-> FALSE, v |-> JNone]

\* key in d, and d.get(key) (the last member wins, None when absent)
HasKey(d, key) == \E i \in 1..Len(d.kv) : d.kv[i].k = key
Get(d, key) ==
    IF HasKey(d, key)
    THEN d.kv[Max({i \in 1..Len(d.kv) : d.kv[i].k = key})].v
    ELSE JNone

\* Python truth value of a parsed value
Truthy(v) ==
    CASE v.t = "str" -> v.s # << >>
      [] v.t = "num" -> \E i \in 1..Len(v.s) : v.s[i] # "0"
      [] v.t = "obj" -> v.kv # << >>
      [] v.t = "arr" -> v.kv # << >>
      [] OTHER -> FALSE

(***************************************************************************)
(* The brace/bracket scan shared by _fix_truncated_json and                *)
(* _find_last_complete_structure: the depth after the first n characters. *)
(***************************************************************************)
BraceCount(t, n) == CountUpTo(t, LB, n) - CountUpTo(t, RB, n)
BracketCount(t, n) == CountUpTo(t, LK, n) - CountUpTo(t, RK, n)

\* _find_last_complete_structure: the last position (i + 1) after which both
\* counts are zero, 0 when there is none
FindLastCompleteStructure(t) ==
    LET S == {n \in 1..Len(t) : BraceCount(t, n) = 0 /\ BracketCount(t, n) = 0}
    IN  IF S = {} THEN 0 ELSE Max(S)

FixTruncatedJson_BracesFirst(truncated_response) ==
    LET response == Strip(truncated_response)
        last_complete_pos == FindLastCompleteStructure(response)
        open_braces == Count(response, LB) - Count(response, RB)
        open_brackets == Count(response, LK) - Count(response, RK)
    IN  IF last_complete_pos > 0
        THEN SubSeq(response, 1, last_complete_pos)
        ELSE response \o Repeat(RB, open_braces) \o Repeat(RK, open_brackets)

\* _fix_truncated_json: the stripped text cut at its last complete position,
\* or, when there is none, closed with the missing brackets, then braces
FixTruncatedJson(truncated_response) ==
    LET response == Strip(truncated_response)
        S == {n \in 1..Len(response) :
                BraceCount(response, n) = 0 /\ BracketCount(response, n) = 0}
        last_complete_pos == IF S = {} THEN 0 ELSE Max(S)
        open_braces == Count(response, LB) - Count(response, RB)
        open_brackets == Count(response, LK) - Count(response, RK)
    IN  IF last_complete_pos > 0
        THEN SubSeq(response, 1, last_complete_pos)
        ELSE response \o Repeat(RK, open_brackets) \o Repeat(RB, open_braces)

(***************************************************************************)
(* _fix_common_json_issues: five re.sub passes.  The first four quote a   *)
(* key ([^"\s]+ followed by ':') that follows the pass's literals, each   *)
(* literal followed by \s*; the fifth names a key that is missing.        *)
(***************************************************************************)
NoMatch == [ok |-> FALSE, s |-> 0, c |-> 0]

\* the position after the literals of the pattern matched at i, 0 if they do not match
AfterLits(t, i, lits) ==
    IF t[i] # lits[1] THEN 0
    ELSE IF Len(lits) = 1 THEN SkipWs(t, i + 1)
    ELSE LET j == SkipWs(t, i + 1)
         IN  IF j <= Len(t) /\ t[j] = lits[2] THEN SkipWs(t, j + 1) ELSE 0

\* lits \s* ([^"\s]+): matched at i: the group is t[s..c-1], the colon is at c.
\* The group is greedy: it ends at the last colon of the run of characters
\* that are neither a quote nor whitespace.
MatchKey(t, i, lits) ==
    LET s == AfterLits(t, i, lits)
    IN  IF s = 0 \/ s > Len(t) THEN NoMatch
        ELSE
            LET e == Max({j \in (s - 1)..Len(t) : \A k \in s..j : t[k] \notin {QT, SP}})
                colons == {c \in (s + 1)..e : t[c] = CO}
            IN  IF colons = {} THEN NoMatch
                ELSE [ok |-> TRUE, s |-> s, c |-> Max(colons)]

RECURSIVE ReSubKey(_, _, _, _)
\* re.sub of one key-quoting pattern from position i on: leftmost matches,
\* not overlapping, each replaced by repl, the group, and '":'
ReSubKey(t, i, lits, repl) ==
    IF i > Len(t) THEN << >>
    ELSE
        LET m == MatchKey(t, i, lits)
        IN  IF m.ok
            THEN repl \o SubSeq(t, m.s, m.c - 1) \o <<QT, CO>>
                     \o ReSubKey(t, m.c + 1, lits, repl)
            ELSE <<t[i]>> \o ReSubKey(t, i + 1, lits, repl)

\* {\s*":\s*"([^"]+)" matched at i: the group is t[s..c-1], the closing quote at c
MatchMissingKey(t, i) ==
    IF t[i] # LB THEN NoMatch
    ELSE
        LET j == SkipWs(t, i + 1)
        IN  IF j + 1 > Len(t) \/ t[j] # QT \/ t[j + 1] # CO THEN NoMatch
            ELSE
                LET k == SkipWs(t, j + 2)
                IN  IF k > Len(t) \/ t[k] # QT THEN NoMatch
                    ELSE
                        LET quotes == {q \in (k + 1)..Len(t) : t[q] = QT}
                        IN  IF quotes = {} \/ Min(quotes) = k + 1 THEN NoMatch
                            ELSE [ok |-> TRUE, s |-> k + 1, c |-> Min(quotes)]

RECURSIVE ReSubMissingKey(_, _)
ReSubMissingKey(t, i) ==
    IF i > Len(t) THEN << >>
    ELSE
        LET m == MatchMissingKey(t, i)
        IN  IF m.ok
            THEN <<LB, SP, QT, "n", "a", "m", "e", QT, CO, SP, QT>>
                     \o SubSeq(t, m.s, m.c - 1) \o <<QT>>
                     \o ReSubMissingKey(t, m.c + 1)
            ELSE <<t[i]>> \o ReSubMissingKey(t, i + 1)

FixCommonJsonIssues(ai_response) ==
    LET r1 == ReSubKey(ai_response, 1, <<LK, LB>>, <<LK, LB, SP, QT>>)
        r2 == ReSubKey(r1, 1, <<LB>>, <<LB, SP, QT>>)
        r3 == ReSubKey(r2, 1, <<CM>>, <<CM, SP, QT>>)
        r4 == ReSubKey(r3, 1, <<CO, LB>>, <<CO, SP, LB, SP, QT>>)
    IN  ReSubMissingKey(r4, 1)

(***************************************************************************)
(* The other two repair functions.  A result is [some, s]: some is FALSE  *)
(* where the code returns None.                                            *)
(***************************************************************************)
None == [some |-> FALSE, s |-> << >>]
Some(s) == [some |-> TRUE, s |-> s]

\* _extract_valid_json: the text from the first '{' to the '}' that balances
\* it (braces only), if it parses
ExtractValidJson(response) ==
    LET opens == {i \in 1..Len(response) : response[i] = LB}
    IN  IF opens = {} THEN None
        ELSE
            LET start_brace == Min(opens)
                ends == {i \in start_brace..Len(response) :
                            /\ response[i] = RB
                            /\ BraceCount(response, i)
                                 - BraceCount(response, start_brace - 1) = 0}
            IN  IF ends = {} THEN None
                ELSE
                    LET potential_json == SubSeq(response, start_brace, Min(ends))
                    IN  IF JsonLoads(potential_json).ok
                        THEN Some(potential_json) ELSE None

CompleteTruncatedJson_BracesOnly(resp) ==
    LET response == Strip(resp)
        last_complete == FindLastCompleteStructure(response)
        open_braces == Count(response, LB) - Count(response, RB)
        open_brackets == Count(response, LK) - Count(response, RK)
        completed == response \o Repeat(RB, open_braces)
        fixed == FixCommonJsonIssues(completed)
    IN  IF last_complete # 0 THEN Some(SubSeq(response, 1, last_complete))
        ELSE IF open_braces < 0 \/ open_brackets < 0 THEN None
        ELSE IF JsonLoads(completed).ok THEN Some(completed)
        ELSE IF JsonLoads(fixed).ok THEN Some(fixed)
        ELSE None

\* _complete_truncated_json
CompleteTruncatedJson(resp) ==
    LET response == Strip(resp)
        last_complete == FindLastCompleteStructure(response)
        open_braces == Count(response, LB) - Count(response, RB)
        open_brackets == Count(response, LK) - Count(response, RK)
        completed == response \o Repeat(RK, open_brackets) \o Repeat(RB, open_braces)
        fixed == FixCommonJsonIssues(completed)
    IN  IF last_complete # 0 THEN Some(SubSeq(response, 1, last_complete))
        ELSE IF open_braces < 0 \/ open_brackets < 0 THEN None
        ELSE IF JsonLoads(completed).ok THEN Some(completed)
        ELSE IF JsonLoads(fixed).ok THEN Some(fixed)
        ELSE None

(***************************************************************************)
(* Validation.                                                             *)
(***************************************************************************)
ValidateRequiredFields_SkipsLastName(data) ==
    IF ~HasKey(data, PERSONAL_INFORMATION) THEN "missing_personal_information"
    ELSE
        LET personal_info == Get(data, PERSONAL_INFORMATION)
        IN  IF personal_info.t # "obj" THEN "personal_information_not_object"
            ELSE IF ~Truthy(Get(personal_info, FIRST_NAME)) THEN "missing_first_name"
            ELSE "ok"

\* _validate_required_fields: "ok", or the failure it raises
ValidateRequiredFields(data) ==
    IF ~HasKey(data, PERSONAL_INFORMATION) THEN "missing_personal_information"
    ELSE
        LET personal_info == Get(data, PERSONAL_INFORMATION)
        IN  IF personal_info.t # "obj" THEN "personal_information_not_object"
            ELSE IF ~Truthy(Get(personal_info, FIRST_NAME)) THEN "missing_first_name"
            ELSE IF ~Truthy(Get(personal_info, LAST_NAME)) THEN "missing_last_name"
            ELSE "ok"

\* expected_structure and expected_personal_fields (lines 836-873), for the
\* keys p, s (professional_summary), e (education), k (skills),
\* r (references) and f, m (middle_name), l, h (phones), a (address):
\* the type isinstance tests for
expected_structure ==
    << [k |-> PERSONAL_INFORMATION, t |-> "obj"], [k |-> <<"s">>, t |-> "str"],
       [k |-> <<"e">>, t |-> "arr"], [k |-> <<"k">>, t |-> "obj"],
       [k |-> <<"r">>, t |-> "arr"] >>

expected_personal_fields ==
    << [k |-> FIRST_NAME, t |-> "str"], [k |-> <<"m">>, t |-> "str"],
       [k |-> LAST_NAME, t |-> "str"], [k |-> <<"h">>, t |-> "arr"],
       [k |-> <<"a">>, t |-> "obj"] >>

\* "field in personal_info" and "personal_info[field]" for a value that need
\* not be a dict: [raises, found]
FieldIn(personal_info, field) ==
    CASE personal_info.t = "obj" ->
            [raises |-> FALSE, found |-> HasKey(personal_info, field)]
      [] personal_info.t = "str" ->
            [raises |-> Contains(personal_info.s, field),
             found |-> Contains(personal_info.s, field)]
      [] personal_info.t = "arr" ->
            [raises |-> \E n \in 1..Len(personal_info.kv) :
                            personal_info.kv[n].v = JStr(field),
             found |-> \E n \in 1..Len(personal_info.kv) :
                            personal_info.kv[n].v = JStr(field)]
      [] OTHER -> [raises |-> TRUE, found |-> FALSE]

\* the warnings _validate_json_format collects for a dict
FormatWarnings(data) ==
    LET personal_info == Get(data, PERSONAL_INFORMATION)
        references == Get(data, <<"r">>)
    IN  {<<"missing", expected_structure[n].k>> :
            n \in {x \in 1..Len(expected_structure) :
                      ~HasKey(data, expected_structure[x].k)}}
        \cup
        {<<"type", expected_structure[n].k>> :
            n \in {x \in 1..Len(expected_structure) :
                      /\ HasKey(data, expected_structure[x].k)
                      /\ Get(data, expected_structure[x].k).t # expected_structure[x].t}}
        \cup
        (IF HasKey(data, PERSONAL_INFORMATION) /\ personal_info.t = "obj"
         THEN {<<"missing_personal", expected_personal_fields[n].k>> :
                  n \in {x \in 1..Len(expected_personal_fields) :
                            ~HasKey(personal_info, expected_personal_fields[x].k)}}
              \cup
              {<<"type_personal", expected_personal_fields[n].k>> :
                  n \in {x \in 1..Len(expected_personal_fields) :
                            /\ HasKey(personal_info, expected_personal_fields[x].k)
                            /\ Get(personal_info, expected_personal_fields[x].k).t
                                  # expected_personal_fields[x].t}}
         ELSE {})
        \cup
        (IF HasKey(data, <<"r">>) /\ references.t = "arr"
         THEN {<<"reference", <<"r">>>> :
                  n \in {x \in 1..Len(references.kv) :
                            \/ references.kv[x].v.t # "obj"
                            \/ ~HasKey(references.kv[x].v, <<"n">>)
                            \/ ~HasKey(references.kv[x].v, <<"r">>)}}
         ELSE {})

ValidateJsonFormat_Strict(data) ==
    [raised |-> FormatWarnings(data) # {}, warnings |-> FormatWarnings(data)]

\* _validate_json_format: it raises only what its own statements raise (the
\* membership test or the subscript of a personal_information that is no
\* dict), and prints the warnings
ValidateJsonFormat(data) ==
    [raised |-> /\ HasKey(data, PERSONAL_INFORMATION)
                /\ \E n \in 1..Len(expected_personal_fields) :
                      FieldIn(Get(data, PERSONAL_INFORMATION),
                              expected_personal_fields[n].k).raises,
     warnings |-> FormatWarnings(data)]

\* _validate_and_return_result, and the same three checks made inline on the
\* direct parse: "ok", or the failure raised
ValidateAndReturnResult(result) ==
    IF result.t # "obj" THEN "not_object"
    ELSE IF ValidateRequiredFields(result) # "ok" THEN ValidateRequiredFields(result)
    ELSE IF ValidateJsonFormat(result).raised THEN "format_error"
    ELSE "ok"

(***************************************************************************)
(* Continuation.                                                           *)
(***************************************************************************)
\* _has_valid_starting_structure
HasValidStartingStructure(response) ==
    LET required_elements == { <<QT>> \o PERSONAL_INFORMATION \o <<QT>>,
                               <<QT>> \o FIRST_NAME \o <<QT>>,
                               <<QT>> \o LAST_NAME \o <<QT>> }
        found_elements == Cardinality({e \in required_elements : Contains(response, e)})
    IN  /\ \E i \in 1..Len(response) : response[i] = LB
        /\ found_elements >= 2

\* _concatenate_responses (None when there is no complete position)
ConcatenateResponses(original_response, continuation) ==
    LET last_complete_pos == FindLastCompleteStructure(original_response)
        complete_part == RStripComma(RStrip(SubSeq(original_response, 1, last_complete_pos)))
    IN  IF last_complete_pos = 0 THEN None
        ELSE Some(complete_part \o continuation)

(***************************************************************************)
(* Configuration (AIProcessor.__init__).                                   *)
(***************************************************************************)
primary_model == "primary"
fallback_models == <<"fallback1", "fallback2", "fallback3">>
AllModels == {primary_model} \cup {fallback_models[k] : k \in 1..Len(fallback_models)}

(***************************************************************************)
(* The provider.  What a model answers to the main completion call and to *)
(* a continuation call: HTTP status, completion text, finish_reason.  A   *)
(* model answers the same way each time it is called.                      *)
(***************************************************************************)
\* {"p":{"f":"A","l":"C"}}
TxtComplete == <<"{","\"","p","\"",":","{","\"","f","\"",":","\"","A","\"",",","\"","l","\"",":","\"","C","\"","}","}">>
\* {"p":{"f":"A"}}
TxtNoLastName == <<"{","\"","p","\"",":","{","\"","f","\"",":","\"","A","\"","}","}">>
\* { n: "A" }
TxtUnquotedName == <<"{"," ","n",":"," ","\"","A","\""," ","}">>
\* {p:{"f":"A","l":"C"}}
TxtUnquotedSection == <<"{","p",":","{","\"","f","\"",":","\"","A","\"",",","\"","l","\"",":","\"","C","\"","}","}">>
\* {"p":{"f":"A","l":"C"},"e":[
TxtCutInArray == <<"{","\"","p","\"",":","{","\"","f","\"",":","\"","A","\"",",","\"","l","\"",":","\"","C","\"","}",",","\"","e","\"",":","[">>
\* {"p":{"f":"A","l":"}}
TxtCutInLastName == <<"{","\"","p","\"",":","{","\"","f","\"",":","\"","A","\"",",","\"","l","\"",":","\"","}","}">>
\* {"p":{"f":"}}
TxtCutInFirstName == <<"{","\"","p","\"",":","{","\"","f","\"",":","\"","}","}">>
\* {"p":{"f":"A","l":"C"}}{"e":[
TxtSecondObjectCut == <<"{","\"","p","\"",":","{","\"","f","\"",":","\"","A","\"",",","\"","l","\"",":","\"","C","\"","}","}","{","\"","e","\"",":","[">>
\* {p:{"f":"A","l":"C"},"e":[
TxtUnquotedCut == <<"{","p",":","{","\"","f","\"",":","\"","A","\"",",","\"","l","\"",":","\"","C","\"","}",",","\"","e","\"",":","[">>
\* {"p":{"f":"A","l":"C"}
TxtMissingLastBrace == <<"{","\"","p","\"",":","{","\"","f","\"",":","\"","A","\"",",","\"","l","\"",":","\"","C","\"","}">>
\* {"p":{"f":"A","l":"C"}} }
TxtExtraBrace == <<"{","\"","p","\"",":","{","\"","f","\"",":","\"","A","\"",",","\"","l","\"",":","\"","C","\"","}","}"," ","}">>
\* "}}
TxtClosing == <<"\"","}","}">>

Outcome(status, content, finish_reason, cont_status, cont_content) ==
    [status |-> status, content |-> content, finish_reason |-> finish_reason,
     cont_status |-> cont_status, cont_content |-> cont_content]

NoOutcome == Outcome(0, << >>, "", 0, << >>)

ProviderOutcomes ==
    { Outcome(500, << >>, "", 500, << >>),
      Outcome(200, TxtComplete, "stop", 500, << >>),
      Outcome(200, TxtNoLastName, "stop", 500, << >>),
      Outcome(200, TxtUnquotedName, "stop", 500, << >>),
      Outcome(200, TxtUnquotedSection, "stop", 500, << >>),
      Outcome(200, TxtCutInArray, "length", 500, << >>),
      Outcome(200, TxtCutInLastName, "length", 200, TxtClosing),
      Outcome(200, TxtCutInLastName, "length", 500, << >>),
      Outcome(200, TxtCutInFirstName, "length", 200, TxtClosing),
      Outcome(200, TxtSecondObjectCut, "stop", 500, << >>),
      Outcome(200, TxtUnquotedCut, "length", 200, <<RB>>),
      Outcome(200, TxtMissingLastBrace, "stop", 200, <<RB>>),
      Outcome(200, TxtExtraBrace, "stop", 500, << >>) }

(***************************************************************************)
(* State.                                                                  *)
(***************************************************************************)
VARIABLES
    enable_fallback_models, \* self.enable_fallback_models
    provider,       \* per model, the outcome of its calls (NoOutcome until first called)
    pc,             \* position of the extraction's control flow
    call,           \* which call of _process_cv_single_request: 0 the primary one
                    \* (line 77), k >= 1 the k-th of the fallback loop (line 97)
    i,              \* loop index in models_to_try (1-based)
    ai_response,    \* the content handed to _parse_ai_response
    last_error,     \* _process_cv_single_request's last_error ("" is None)
    primary_error,  \* process_cv_to_json's primary_error
    result,         \* what the caller of process_cv_to_json gets
    in_flight,      \* network calls sent and not yet answered
    invoked,        \* history: the models sent a main completion call, in order
    raw_response,   \* history: the provider's completion text of this attempt
    steps,          \* history: parse, continuation and repair steps of this attempt
    attempts,       \* history: each failed attempt's model and reason, in order
    arg,            \* the argument of a function applied on its own
    ret             \* what it returned ("unset" before)

extraction == <<enable_fallback_models, provider, pc, call, i, ai_response, last_error,
                primary_error, result, in_flight, invoked, raw_response, steps, attempts>>

vars == <<extraction, arg, ret>>

models_to_try_IgnoresFlag == <<primary_model>> \o fallback_models

\* line 175
models_to_try ==
    <<primary_model>> \o (IF enable_fallback_models THEN fallback_models ELSE << >>)

model == models_to_try[i]

Pending == [outcome |-> "pending", success |-> FALSE, ai_data |-> JNone,
            model_used |-> "", reasons |-> << >>, models_tried |-> << >>]

\* the dictionary process_cv_to_json returns (lines 80-85, 100-105)
Returned(data, m) ==
    [outcome |-> "returned", success |-> TRUE, ai_data |-> data,
     model_used |-> m, reasons |-> << >>, models_tried |-> << >>]

Raised_ReturnsErrorDetails(error) ==
    [outcome |-> "returned", success |-> TRUE, ai_data |-> JNone,
     model_used |-> "", reasons |-> <<error>>, models_tried |-> models_to_try]

\* the exception it raises (lines 91, 112): it carries error_details of the
\* primary call, that is its last error and models_tried (lines 218-226)
Raised(error) ==
    [outcome |-> "raised", success |-> FALSE, ai_data |-> JNone,
     model_used |-> "", reasons |-> <<error>>, models_tried |-> models_to_try]

InitExtraction ==
    /\ provider = [m \in AllModels |-> NoOutcome]
    /\ pc = "start"
    /\ call = 0
    /\ i = 1
    /\ ai_response = << >>
    /\ last_error = ""
    /\ primary_error = ""
    /\ result = Pending
    /\ in_flight = 0
    /\ invoked = << >>
    /\ raw_response = << >>
    /\ steps = << >>
    /\ attempts = << >>

Init ==
    /\ enable_fallback_models \in BOOLEAN
    /\ InitExtraction
    /\ arg = JNone
    /\ ret = "unset"

(***************************************************************************)
(* How an attempt ends.                                                    *)
(***************************************************************************)
LastModel_OffByOne == i >= Len(models_to_try) - 1

\* line 211: this was the last model of models_to_try
LastModel == i = Len(models_to_try)

NewLastError_KeepsFirst(reason) == IF last_error = "" THEN reason ELSE last_error

\* line 208: last_error = e
NewLastError(reason) == reason

\* An exception in the loop body of _process_cv_single_request (lines 206-226)
\* and, once the loop is over, in process_cv_to_json (lines 87-112).  A new
\* call of _process_cv_single_request starts with last_error = None (line 176).
ModelFailed(reason) ==
    /\ attempts' = Append(attempts, [model |-> model, reason |-> reason])
    /\ IF ~LastModel
       THEN /\ i' = i + 1
            /\ pc' = "call_api"
            /\ last_error' = NewLastError(reason)
            /\ UNCHANGED <<call, primary_error, result>>
       ELSE IF call = 0
       THEN /\ primary_error' = NewLastError(reason)
            /\ IF ~enable_fallback_models
               THEN /\ pc' = "done"
                    /\ result' = Raised(NewLastError(reason))
                    /\ last_error' = NewLastError(reason)
                    /\ UNCHANGED <<call, i>>
               ELSE /\ call' = 1
                    /\ i' = 1
                    /\ pc' = "call_api"
                    /\ last_error' = ""
                    /\ UNCHANGED result
       ELSE IF call < Len(fallback_models)
       THEN /\ call' = call + 1
            /\ i' = 1
            /\ pc' = "call_api"
            /\ last_error' = ""
            /\ UNCHANGED <<primary_error, result>>
       ELSE /\ pc' = "done"
            /\ result' = Raised(primary_error)
            /\ last_error' = NewLastError(reason)
            /\ UNCHANGED <<call, i, primary_error>>

ReturnResult_ReportsRequestedModel(data) ==
    IF data.t # "obj" THEN ModelFailed("not_dictionary")
    ELSE IF ~HasKey(data, PERSONAL_INFORMATION) THEN ModelFailed("missing_personal_information")
    ELSE /\ pc' = "done"
         /\ result' = Returned(data, IF call = 0 THEN primary_model
                                     ELSE fallback_models[call])
         /\ UNCHANGED <<call, i, last_error, primary_error, attempts>>

\* _parse_ai_response returned data: the final validation of
\* _process_cv_single_request (lines 191-204), then the return of
\* process_cv_to_json (lines 80-85, 100-105)
ReturnResult(data) ==
    IF data.t # "obj" THEN ModelFailed("not_dictionary")
    ELSE IF ~HasKey(data, PERSONAL_INFORMATION) THEN ModelFailed("missing_personal_information")
    ELSE /\ pc' = "done"
         /\ result' = Returned(data, model)
         /\ UNCHANGED <<call, i, last_error, primary_error, attempts>>

Step(name, input, parsed, valid) ==
    [step |-> name, input |-> input, parsed |-> parsed, valid |-> valid]

Goto(p) ==
    /\ pc' = p
    /\ UNCHANGED <<call, i, last_error, primary_error, result, attempts>>

TryCandidate_SkipsValidation(name, input, cand, otherwise) ==
    LET r == IF cand.some THEN JsonLoads(cand.s) ELSE [ok |-> FALSE, v |-> JNone]
        valid == IF r.ok THEN "ok" ELSE ""
    IN  /\ steps' = Append(steps, Step(name, input, r.ok, valid))
        /\ IF r.ok /\ valid = "ok" THEN ReturnResult(r.v) ELSE otherwise

\* One candidate of _parse_ai_response after the direct parse failed:
\* json.loads, then _validate_and_return_result, inside a try whose
\* "except Exception" swallows whatever either raises (lines 570-616).
\* input is the text the step was given, cand what it made of it: None
\* where it produced nothing to parse.
TryCandidate(name, input, cand, otherwise) ==
    LET r == IF cand.some THEN JsonLoads(cand.s) ELSE [ok |-> FALSE, v |-> JNone]
        valid == IF r.ok THEN ValidateAndReturnResult(r.v) ELSE ""
    IN  /\ steps' = Append(steps, Step(name, input, r.ok, valid))
        /\ IF r.ok /\ valid = "ok" THEN ReturnResult(r.v) ELSE otherwise

StatusOk_Unchecked(o) == TRUE

\* line 447: any status but 200 raises
StatusOk(o) == o.status = 200

\* lines 464-474: the content _call_openrouter_api returns for an answer
Content(o) ==
    LET received == o.content
        fixed1 == IF o.finish_reason = "length"
                  THEN FixTruncatedJson(received) ELSE received
    IN  IF ~EndsWith(Strip(fixed1), RB) THEN FixTruncatedJson(fixed1) ELSE fixed1

(***************************************************************************)
(* Actions.                                                                *)
(***************************************************************************)
\* process_cv_to_json up to its first call of _process_cv_single_request
ProcessCvToJson ==
    /\ pc = "start"
    /\ Goto("call_api")
    /\ UNCHANGED <<enable_fallback_models, provider, ai_response, in_flight,
                   invoked, raw_response, steps, arg, ret>>

\* _call_openrouter_api: the request is sent (session.post)
CallOpenRouterApi ==
    /\ pc = "call_api"
    /\ in_flight' = in_flight + 1
    /\ invoked' = Append(invoked, model)
    /\ ai_response' = << >>
    /\ raw_response' = << >>
    /\ steps' = << >>
    /\ Goto("await_api")
    /\ UNCHANGED <<enable_fallback_models, provider, arg, ret>>

\* _call_openrouter_api: the answer (or the timeout) arrives; lines 447-483
OpenRouterApiResponse ==
    /\ pc = "await_api"
    /\ \E o \in ProviderOutcomes :
        /\ provider[model] \in {NoOutcome, o}
        /\ provider' = [provider EXCEPT ![model] = o]
        /\ in_flight' = in_flight - 1
        /\ IF ~StatusOk(o)
           THEN /\ ModelFailed("transport")
                /\ UNCHANGED <<ai_response, raw_response>>
           ELSE /\ raw_response' = o.content
                /\ ai_response' = Content(o)
                /\ Goto("parse")
    /\ UNCHANGED <<enable_fallback_models, invoked, steps, arg, ret>>

ParseAiResponse_SkipsContinuation ==
    /\ pc = "parse"
    /\ LET r == JsonLoads(ai_response)
           valid == IF r.ok THEN ValidateAndReturnResult(r.v) ELSE ""
       IN  /\ steps' = Append(steps, Step("parse", ai_response, r.ok, valid))
           /\ IF r.ok
              THEN IF valid = "ok" THEN ReturnResult(r.v) ELSE ModelFailed(valid)
              ELSE Goto("fix_common")
    /\ UNCHANGED <<enable_fallback_models, provider, ai_response, in_flight,
                   invoked, raw_response, arg, ret>>

\* _parse_ai_response: the direct parse and its validation (lines 545-559);
\* on JSONDecodeError the continuation gate (line 568)
ParseAiResponse ==
    /\ pc = "parse"
    /\ LET r == JsonLoads(ai_response)
           valid == IF r.ok THEN ValidateAndReturnResult(r.v) ELSE ""
       IN  /\ steps' = Append(steps, Step("parse", ai_response, r.ok, valid))
           /\ IF r.ok
              THEN IF valid = "ok" THEN ReturnResult(r.v) ELSE ModelFailed(valid)
              ELSE IF HasValidStartingStructure(ai_response)
                   THEN Goto("continue")
                   ELSE Goto("fix_common")
    /\ UNCHANGED <<enable_fallback_models, provider, ai_response, in_flight,
                   invoked, raw_response, arg, ret>>

ContinueAiResponse_AlongsideRepairs ==
    /\ pc = "continue"
    /\ IF FindLastCompleteStructure(ai_response) = 0
       THEN /\ steps' = Append(steps, Step("no_continuation", ai_response, FALSE, ""))
            /\ UNCHANGED in_flight
       ELSE /\ steps' = Append(steps, Step("continue",
                        SubSeq(ai_response, 1, FindLastCompleteStructure(ai_response)),
                        FALSE, ""))
            /\ in_flight' = in_flight + 1
    /\ Goto("fix_common")
    /\ UNCHANGED <<enable_fallback_models, provider, ai_response, invoked,
                   raw_response, arg, ret>>

\* _continue_ai_response up to its request (lines 948-1007): nothing is sent
\* when the response has no complete position
ContinueAiResponse ==
    /\ pc = "continue"
    /\ IF FindLastCompleteStructure(ai_response) = 0
       THEN /\ steps' = Append(steps, Step("no_continuation", ai_response, FALSE, ""))
            /\ Goto("fix_common")
            /\ UNCHANGED in_flight
       ELSE /\ steps' = Append(steps, Step("continue",
                        SubSeq(ai_response, 1, FindLastCompleteStructure(ai_response)),
                        FALSE, ""))
            /\ in_flight' = in_flight + 1
            /\ Goto("await_continuation")
    /\ UNCHANGED <<enable_fallback_models, provider, ai_response, invoked,
                   raw_response, arg, ret>>

ContinuationResponse_KeepsSplice ==
    /\ pc = "await_continuation"
    /\ in_flight' = in_flight - 1
    /\ LET o == provider[model]
           continued_response == IF o.cont_status # 200 THEN None ELSE Some(o.cont_content)
           combined_response ==
               IF continued_response.some /\ continued_response.s # << >>
               THEN ConcatenateResponses(ai_response, continued_response.s)
               ELSE None
       IN  /\ TryCandidate("splice", ai_response, combined_response, Goto("fix_common"))
           /\ ai_response' = IF combined_response.some THEN combined_response.s
                              ELSE ai_response
    /\ UNCHANGED <<enable_fallback_models, provider, invoked, raw_response, arg, ret>>

\* the continuation's answer, the splice and its parse (lines 1009-1024, 572-584)
ContinuationResponse ==
    /\ pc = "await_continuation"
    /\ in_flight' = in_flight - 1
    /\ LET o == provider[model]
           continued_response == IF o.cont_status # 200 THEN None ELSE Some(o.cont_content)
           combined_response ==
               IF continued_response.some /\ continued_response.s # << >>
               THEN ConcatenateResponses(ai_response, continued_response.s)
               ELSE None
       IN  TryCandidate("splice", ai_response, combined_response, Goto("fix_common"))
    /\ UNCHANGED <<enable_fallback_models, provider, ai_response, invoked,
                   raw_response, arg, ret>>

FixCommon_SkipsExtract ==
    /\ pc = "fix_common"
    /\ LET input == ai_response
       IN  TryCandidate("fix_common", input, Some(FixCommonJsonIssues(input)),
                        Goto("complete"))
    /\ UNCHANGED <<enable_fallback_models, provider, ai_response, in_flight,
                   invoked, raw_response, arg, ret>>

\* Approach 1 (lines 589-596)
FixCommon ==
    /\ pc = "fix_common"
    /\ LET input == ai_response
       IN  TryCandidate("fix_common", input, Some(FixCommonJsonIssues(input)),
                        Goto("extract"))
    /\ UNCHANGED <<enable_fallback_models, provider, ai_response, in_flight,
                   invoked, raw_response, arg, ret>>

Extract_Chained ==
    /\ pc = "extract"
    /\ LET input == FixCommonJsonIssues(ai_response)
       IN  TryCandidate("extract", input, ExtractValidJson(input), Goto("complete"))
    /\ UNCHANGED <<enable_fallback_models, provider, ai_response, in_flight,
                   invoked, raw_response, arg, ret>>

\* Approach 2 (lines 598-606)
Extract ==
    /\ pc = "extract"
    /\ LET input == ai_response
       IN  TryCandidate("extract", input, ExtractValidJson(input), Goto("complete"))
    /\ UNCHANGED <<enable_fallback_models, provider, ai_response, in_flight,
                   invoked, raw_response, arg, ret>>

Complete_RetriesModel ==
    /\ pc = "complete"
    /\ LET input == ai_response
       IN  TryCandidate("complete", input, CompleteTruncatedJson(input),
                        Goto("call_api"))
    /\ UNCHANGED <<enable_fallback_models, provider, ai_response, in_flight,
                   invoked, raw_response, arg, ret>>

\* Approach 3 and the failure of them all (lines 608-622)
Complete ==
    /\ pc = "complete"
    /\ LET input == ai_response
       IN  TryCandidate("complete", input, CompleteTruncatedJson(input),
                        ModelFailed("structural_parse_failure"))
    /\ UNCHANGED <<enable_fallback_models, provider, ai_response, in_flight,
                   invoked, raw_response, arg, ret>>

\* _parse_ai_response from Approach 1 on, as a function of the response text:
\* what the three approaches give when no continuation is attempted
\* (lines 586-622)
RepairOutcome(response) ==
    LET c1 == Some(FixCommonJsonIssues(response))
        c2 == ExtractValidJson(response)
        c3 == CompleteTruncatedJson(response)
        Good(c) == /\ c.some
                   /\ JsonLoads(c.s).ok
                   /\ ValidateAndReturnResult(JsonLoads(c.s).v) = "ok"
        Success(c) == [success |-> TRUE, data |-> JsonLoads(c.s).v, reason |-> ""]
    IN  IF Good(c1) THEN Success(c1)
        ELSE IF Good(c2) THEN Success(c2)
        ELSE IF Good(c3) THEN Success(c3)
        ELSE [success |-> FALSE, data |-> JNone, reason |-> "structural_parse_failure"]

Next ==
    \/ ProcessCvToJson
    \/ CallOpenRouterApi
    \/ OpenRouterApiResponse
    \/ ParseAiResponse
    \/ ContinueAiResponse
    \/ ContinuationResponse
    \/ FixCommon
    \/ Extract
    \/ Complete

Spec == Init /\ [][Next]_vars

\* the positions at which the coroutine waits for the answer of a network
\* call or computes on a response
AwaitingOrComputing ==
    pc \in {"await_api", "parse", "await_continuation", "fix_common", "extract", "complete"}

\* The extraction under the assumption that every network call is answered or
\* times out (ClientTimeout, lines 440 and 1002) and that the coroutine is
\* scheduled: a step that can be taken is eventually taken.  For the steps
\* taken at the positions of AwaitingOrComputing, which are enabled whenever
\* the extraction is at their position, weak fairness is written with that
\* guard: the extraction does not stay at such a position for ever.
SpecLive ==
    /\ Init /\ [][Next]_vars
    /\ WF_vars(ProcessCvToJson)
    /\ WF_vars(CallOpenRouterApi)
    /\ WF_vars(ContinueAiResponse)
    /\ (([]<>~AwaitingOrComputing) \/ ([]<><<Next>>_vars))

(***************************************************************************)
(* Two extractions on one AIProcessor, interleaved by the event loop.     *)
(* The variables of an extraction are the locals of its coroutine; the    *)
(* instance fields (enable_fallback_models and the rest of __init__) and  *)
(* the provider are common to both.  The extraction that is not running   *)
(* is suspended at an await, its locals kept in ret; arg tells which of   *)
(* the two is running.  The provider's answers are fixed in advance, one  *)
(* of TwoOutcomes for each model.                                          *)
(***************************************************************************)
TwoOutcomes ==
    { Outcome(500, << >>, "", 500, << >>),
      Outcome(200, TxtCutInLastName, "length", 200, TxtClosing),
      Outcome(200, TxtCutInFirstName, "length", 200, TxtClosing),
      Outcome(200, TxtExtraBrace, "stop", 500, << >>) }

\* the locals of the running coroutine
Locals ==
    [pc |-> pc, call |-> call, i |-> i, ai_response |-> ai_response,
     last_error |-> last_error, primary_error |-> primary_error,
     result |-> result, in_flight |-> in_flight, invoked |-> invoked,
     raw_response |-> raw_response, steps |-> steps, attempts |-> attempts]

NotStarted ==
    [pc |-> "start", call |-> 0, i |-> 1, ai_response |-> << >>,
     last_error |-> "", primary_error |-> "", result |-> Pending,
     in_flight |-> 0, invoked |-> << >>, raw_response |-> << >>,
     steps |-> << >>, attempts |-> << >>]

InitTwo ==
    /\ enable_fallback_models \in BOOLEAN
    /\ provider \in [AllModels -> TwoOutcomes]
    /\ pc = "start"
    /\ call = 0
    /\ i = 1
    /\ ai_response = << >>
    /\ last_error = ""
    /\ primary_error = ""
    /\ result = Pending
    /\ in_flight = 0
    /\ invoked = << >>
    /\ raw_response = << >>
    /\ steps = << >>
    /\ attempts = << >>
    /\ arg = 1
    /\ ret = NotStarted

Switch_SharesResponseText ==
    /\ pc \in {"await_api", "await_continuation", "done"}
    /\ ret.pc # "done"
    /\ ret' = Locals
    /\ arg' = 3 - arg
    /\ pc' = ret.pc
    /\ call' = ret.call
    /\ i' = ret.i
    /\ last_error' = ret.last_error
    /\ primary_error' = ret.primary_error
    /\ result' = ret.result
    /\ in_flight' = ret.in_flight
    /\ invoked' = ret.invoked
    /\ raw_response' = ret.raw_response
    /\ steps' = ret.steps
    /\ attempts' = ret.attempts
    /\ UNCHANGED <<enable_fallback_models, provider, ai_response>>

\* the running coroutine is suspended at an await of session.post (lines 447,
\* 1007), or has finished, and the event loop resumes the other one
Switch ==
    /\ pc \in {"await_api", "await_continuation", "done"}
    /\ ret.pc # "done"
    /\ ret' = Locals
    /\ arg' = 3 - arg
    /\ pc' = ret.pc
    /\ call' = ret.call
    /\ i' = ret.i
    /\ ai_response' = ret.ai_response
    /\ last_error' = ret.last_error
    /\ primary_error' = ret.primary_error
    /\ result' = ret.result
    /\ in_flight' = ret.in_flight
    /\ invoked' = ret.invoked
    /\ raw_response' = ret.raw_response
    /\ steps' = ret.steps
    /\ attempts' = ret.attempts
    /\ UNCHANGED <<enable_fallback_models, provider>>

NextTwo ==
    \/ ProcessCvToJson
    \/ CallOpenRouterApi
    \/ OpenRouterApiResponse
    \/ ParseAiResponse
    \/ ContinueAiResponse
    \/ ContinuationResponse
    \/ FixCommon
    \/ Extract
    \/ Complete
    \/ Switch

SpecTwo == InitTwo /\ [][NextTwo]_vars

\* One attempt as a function of the model's answer o: the status check (line
\* 447), the fix on receipt, the direct parse and its validation, the
\* continuation and the splice, the three approaches (lines 540-622)
AttemptOutcome(o) ==
    LET content == Content(o)
        r == JsonLoads(content)
        combined_response ==
            IF /\ HasValidStartingStructure(content)
               /\ FindLastCompleteStructure(content) # 0
               /\ o.cont_status = 200
               /\ o.cont_content # << >>
            THEN ConcatenateResponses(content, o.cont_content)
            ELSE None
        spliced == IF combined_response.some THEN JsonLoads(combined_response.s)
                   ELSE [ok |-> FALSE, v |-> JNone]
    IN  IF ~StatusOk(o)
        THEN [success |-> FALSE, data |-> JNone, reason |-> "transport"]
        ELSE IF r.ok
        THEN IF ValidateAndReturnResult(r.v) = "ok"
             THEN [success |-> TRUE, data |-> r.v, reason |-> ""]
             ELSE [success |-> FALSE, data |-> JNone,
                   reason |-> ValidateAndReturnResult(r.v)]
        ELSE IF spliced.ok /\ ValidateAndReturnResult(spliced.v) = "ok"
        THEN [success |-> TRUE, data |-> spliced.v, reason |-> ""]
        ELSE RepairOutcome(content)

\* An extraction that runs alone, as a function of the answers: the models it
\* sends a completion call, in order, and what its caller gets (lines 63-112,
\* 170-226)
AloneRun ==
    LET good == {k \in 1..Len(models_to_try) :
                    AttemptOutcome(provider[models_to_try[k]]).success}
        passes == IF enable_fallback_models THEN 1 + Len(fallback_models) ELSE 1
        n == Len(models_to_try)
    IN  IF good # {}
        THEN [invoked |-> SubSeq(models_to_try, 1, Min(good)),
              result |-> Returned(AttemptOutcome(provider[models_to_try[Min(good)]]).data,
                                  models_to_try[Min(good)])]
        ELSE [invoked |-> [k \in 1..(n * passes) |-> models_to_try[((k - 1) % n) + 1]],
              result |-> Raised(AttemptOutcome(provider[models_to_try[n]]).reason)]

(***************************************************************************)
(* The validator applied on its own to parsed candidates: every           *)
(* combination of the personal_information section (absent, not an        *)
(* object, or an object with each of first_name and last_name absent or   *)
(* holding one of FieldValues) with the optional fields m (middle_name),  *)
(* e (education) and s (professional_summary).                             *)
(***************************************************************************)
Absent == [t |-> "absent", s |-> << >>, kv |-> << >>]

FieldValues ==
    { JNone, JStr(<< >>), JStr(<<"A">>), JNum(<<"0">>), JNum(<<"1">>),
      JArr(<< >>), JObj(<< >>) }

Member(key, v) == IF v = Absent THEN << >> ELSE <<[k |-> key, v |-> v]>>

PersonalInfo(f, l, m) ==
    JObj(Member(FIRST_NAME, f) \o Member(<<"m">>, m) \o Member(LAST_NAME, l))

Candidate(pi, f, l, e, s) ==
    [data |-> JObj(Member(<<"s">>, s) \o Member(PERSONAL_INFORMATION, pi)
                     \o Member(<<"e">>, e)),
     pi |-> pi, f |-> f, l |-> l]

\* values of the references member: a list of references with and without
\* their n (name) and r (relationship), a list of strings, a string
References ==
    { JArr(<< >>),
      JArr(<<[k |-> << >>, v |-> JObj(<<[k |-> <<"n">>, v |-> JStr(<<"A">>)],
                                       [k |-> <<"r">>, v |-> JStr(<<"B">>)]>>)]>>),
      JArr(<<[k |-> << >>, v |-> JObj(<< >>)]>>),
      JArr(<<[k |-> << >>, v |-> JStr(<<"A">>)]>>),
      JStr(<<"A">>) }

WithReferences(c, references) ==
    [c EXCEPT !.data = JObj(c.data.kv \o Member(<<"r">>, references))]

Candidates ==
    { Candidate(PersonalInfo(f, l, m), f, l, e, s) :
        f \in FieldValues \cup {Absent}, l \in FieldValues \cup {Absent},
        m \in {Absent, JStr(<<"B">>), JNum(<<"1">>)},
        e \in {Absent, JArr(<< >>), JObj(<< >>)},
        s \in {Absent, JStr(<<"A">>), JNum(<<"1">>)} }
    \cup
    { Candidate(pi, Absent, Absent, e, s) :
        pi \in {Absent, JNone, JStr(<<"A">>), JArr(<< >>)},
        e \in {Absent, JArr(<< >>), JObj(<< >>)},
        s \in {Absent, JStr(<<"A">>), JNum(<<"1">>)} }
    \cup
    { WithReferences(Candidate(PersonalInfo(f, l, Absent), f, l, Absent, Absent), r) :
        f \in FieldValues \cup {Absent}, l \in FieldValues \cup {Absent},
        r \in References }

InitValidate ==
    /\ enable_fallback_models = TRUE
    /\ InitExtraction
    /\ arg \in Candidates
    /\ ret = "unset"

\* _validate_and_return_result(arg)
Validate ==
    /\ ret = "unset"
    /\ ret' = ValidateAndReturnResult(arg.data)
    /\ UNCHANGED <<extraction, arg>>

SpecValidate == InitValidate /\ [][Validate]_vars

(***************************************************************************)
(* The repair functions applied on their own to a text, then each to its  *)
(* own output: every text of at most MaxTextLen characters of Alphabet,   *)
(* and the longer texts of the catalog.                                    *)
(***************************************************************************)
MaxTextLen == 4

Alphabet == {LB, RB, LK, RK, QT, CO, "1", SP}

\* {"p":{"f":"A","l":"C,D:"}}
TxtColonInValue == <<"{","\"","p","\"",":","{","\"","f","\"",":","\"","A","\"",",","\"","l","\"",":","\"","C",",","D",":","\"","}","}">>

TextInputs ==
    UNION {[1..n -> Alphabet] : n \in 0..MaxTextLen}
    \cup {TxtComplete, TxtNoLastName, TxtUnquotedName, TxtUnquotedSection,
          TxtCutInArray, TxtCutInLastName, TxtCutInFirstName, TxtSecondObjectCut,
          TxtUnquotedCut, TxtMissingLastBrace, TxtExtraBrace, TxtColonInValue}

Repairs(fix_truncated, fix_common, extract, complete) ==
    [fix_truncated |-> fix_truncated, fix_common |-> fix_common,
     extract |-> extract, complete |-> complete]

NoRepairs == Repairs(None, None, None, None)

InitText ==
    /\ enable_fallback_models = TRUE
    /\ InitExtraction
    /\ arg \in TextInputs
    /\ ret = [applied |-> 0, out |-> NoRepairs, again |-> NoRepairs]

\* each repair function applied to the text arg
ApplyRepairs ==
    /\ ret.applied = 0
    /\ ret' = [applied |-> 1,
               out |-> Repairs(Some(FixTruncatedJson(arg)),
                               Some(FixCommonJsonIssues(arg)),
                               ExtractValidJson(arg),
                               CompleteTruncatedJson(arg)),
               again |-> NoRepairs]
    /\ UNCHANGED <<extraction, arg>>

\* each repair function applied to what it returned (nothing where it
\* returned None)
ReapplyRepairs ==
    /\ ret.applied = 1
    /\ ret' = [ret EXCEPT
               !.applied = 2,
               !.again = Repairs(
                   Some(FixTruncatedJson(ret.out.fix_truncated.s)),
                   Some(FixCommonJsonIssues(ret.out.fix_common.s)),
                   IF ret.out.extract.some
                       THEN ExtractValidJson(ret.out.extract.s) ELSE None,
                   IF ret.out.complete.some
                       THEN CompleteTruncatedJson(ret.out.complete.s) ELSE None)]
    /\ UNCHANGED <<extraction, arg>>

NextText == ApplyRepairs \/ ReapplyRepairs

SpecText == InitText /\ [][NextText]_vars

(***************************************************************************)
(* Token budgets: max_tokens of the main completion call                  *)
(* (_calculate_max_tokens) and of the continuation call, for every model  *)
(* of the limits table, a model the table does not know, and prompt       *)
(* lengths from the bare prompt template up.                               *)
(***************************************************************************)
MODEL_TOKEN_LIMITS ==
    [m \in {"anthropic/claude-3.5-sonnet", "openai/gpt-4o", "anthropic/claude-3-haiku",
            "meta-llama/llama-3.1-8b-instruct", "anthropic/claude-3-opus",
            "openai/gpt-4-turbo"} |->
        CASE m = "anthropic/claude-3.5-sonnet" -> 200000
          [] m = "openai/gpt-4o" -> 128000
          [] m = "anthropic/claude-3-haiku" -> 200000
          [] m = "meta-llama/llama-3.1-8b-instruct" -> 8192
          [] m = "anthropic/claude-3-opus" -> 200000
          [] m = "openai/gpt-4-turbo" -> 128000]

MIN_MAX_TOKENS == 2000
SAFETY_BUFFER_TOKENS == 1000

\* self.model_token_limits.get(m, default)
TokenLimit(m, default) ==
    IF m \in DOMAIN MODEL_TOKEN_LIMITS THEN MODEL_TOKEN_LIMITS[m] ELSE default

Min2(a, b) == IF a <= b THEN a ELSE b
Max2(a, b) == IF a >= b THEN a ELSE b

\* lines 136-144
BaseResponseTokens(prompt_length) ==
    IF prompt_length > 100000 THEN 30000
    ELSE IF prompt_length > 50000 THEN 25000
    ELSE IF prompt_length > 20000 THEN 20000
    ELSE 15000

CalculateMaxTokens_NoFloor(m, prompt_length) ==
    Min2(BaseResponseTokens(prompt_length),
         TokenLimit(m, 8192) - (prompt_length \div 4) - SAFETY_BUFFER_TOKENS)

CalculateMaxTokens_NoCap(m, prompt_length) ==
    Max2(BaseResponseTokens(prompt_length), MIN_MAX_TOKENS)

\* _calculate_max_tokens
CalculateMaxTokens(m, prompt_length) ==
    LET model_limit == TokenLimit(m, 8192)
        estimated_prompt_tokens == prompt_length \div 4
        response_tokens ==
            Min2(BaseResponseTokens(prompt_length),
                 model_limit - estimated_prompt_tokens - SAFETY_BUFFER_TOKENS)
        max_tokens ==
            Min2(response_tokens,
                 model_limit - estimated_prompt_tokens - SAFETY_BUFFER_TOKENS)
    IN  Max2(max_tokens, MIN_MAX_TOKENS)

\* line 983
ContinuationMaxTokens(m) == Min2(10000, TokenLimit(m, 8000))

\* len of the prompt _create_cv_prompt builds for an empty file name and text
MinPromptLength == 4562
PromptStep == 4000
MaxPromptUnits == 250

TokenModels == DOMAIN MODEL_TOKEN_LIMITS \cup {"unknown/model"}

PromptLengths ==
    {MinPromptLength + PromptStep * k + d : k \in 0..MaxPromptUnits, d \in 0..3}
    \cup {20000, 20001, 50000, 50001, 100000, 100001}

InitTokens ==
    /\ enable_fallback_models = TRUE
    /\ InitExtraction
    /\ arg \in [model : TokenModels, prompt_length : PromptLengths]
    /\ ret = [calls |-> 0, max_tokens |-> 0, continuation_max_tokens |-> 0]

\* _call_openrouter_api computes max_tokens of the main call (line 420)
MainCallBudget ==
    /\ ret.calls = 0
    /\ ret' = [ret EXCEPT !.calls = 1,
                          !.max_tokens = CalculateMaxTokens(arg.model, arg.prompt_length)]
    /\ UNCHANGED <<extraction, arg>>

\* _continue_ai_response computes max_tokens of the continuation call (line 983)
ContinuationCallBudget ==
    /\ ret.calls = 1
    /\ ret' = [ret EXCEPT !.calls = 2,
                          !.continuation_max_tokens = ContinuationMaxTokens(arg.model)]
    /\ UNCHANGED <<extraction, arg>>

NextTokens == MainCallBudget \/ ContinuationCallBudget

SpecTokens == InitTokens /\ [][NextTokens]_vars

(***************************************************************************)
(* Properties.                                                             *)
(***************************************************************************)
RequiredFieldReasons ==
    {"missing_personal_information", "personal_information_not_object",
     "missing_first_name", "missing_last_name"}

RepairNames == {"fix_common", "extract", "complete"}
IsRepair(x) == x.step \in RepairNames
RepairSteps == SelectSeq(steps, IsRepair)

InAttempt ==
    pc \in {"parse", "continue", "await_continuation", "fix_common", "extract", "complete"}

\* C1: the models sent a main completion call are, in order, a prefix of the
\* model list [primary, fallback1, ...], and the model of a success is the
\* last one invoked (none is invoked after the first success).
C1_InvokedIsPrefixOfModelList ==
    /\ \A k \in 1..Len(invoked) :
          k <= Len(models_to_try) /\ invoked[k] = models_to_try[k]
    /\ result.outcome = "returned" => result.model_used = invoked[Len(invoked)]

\* C2: no model receives more than one main completion call in an extraction,
\* and when every model failed the number of main completion calls is the
\* number of configured models.
C2_AtMostOneCompletionCallPerModel ==
    /\ \A m \in AllModels : Cardinality({k \in 1..Len(invoked) : invoked[k] = m}) <= 1
    /\ result.outcome = "raised" => Len(invoked) = Len(models_to_try)

\* the guard of the action of each position short of "done": a step can be taken
CanStep ==
    /\ i \in 1..Len(models_to_try)
    /\ \/ pc \in {"start", "call_api", "parse", "continue", "await_continuation",
                  "fix_common", "extract", "complete"}
       \/ /\ pc = "await_api"
          /\ \E o \in ProviderOutcomes : provider[model] \in {NoOutcome, o}

\* C3: an extraction ends in exactly one outcome, a success carrying a record
\* or a failure: the caller sees nothing while the extraction runs, a success
\* carries an object and no failure reason, a failure carries a reason and no
\* record, and the extraction cannot stop without one of the two.
C3_ExactlyOneTerminalOutcome ==
    /\ result.outcome \in {"pending", "returned", "raised"}
    /\ (pc = "done") <=> (result.outcome # "pending")
    /\ result.outcome = "returned" =>
          (result.success /\ result.ai_data.t = "obj" /\ result.reasons = << >>)
    /\ result.outcome = "raised" =>
          (~result.success /\ result.ai_data = JNone /\ result.reasons # << >>)
    /\ pc # "done" => CanStep

C3_Witness ==
    /\ pc = "done"
    /\ result.outcome = "raised"
    /\ \E k \in 1..Len(attempts) : attempts[k].reason = "structural_parse_failure"

C5_FailureOnlyAfterEveryModelFailed ==
    result.outcome = "raised" =>
        \A k \in 1..Len(models_to_try) :
            \E a \in 1..Len(attempts) : attempts[a].model = models_to_try[k]

C5_Witness ==
    /\ result.outcome = "raised"
    /\ enable_fallback_models
    /\ \E a \in 1..Len(attempts) : attempts[a].reason = "transport"
    /\ \E a \in 1..Len(attempts) : attempts[a].reason = "missing_last_name"

\* C6: when the completion call of a model fails, no parse, continuation or
\* repair step runs for that attempt (the attempt ends there, with no call in
\* flight), and when the list has a next model the next step of the extraction
\* is the call of that model.
C6_FailedCallAdvancesToNextModel ==
    [][(/\ pc = "await_api"
        /\ pc' # "await_api"
        /\ provider'[model].status # 200)
       => (/\ steps' = << >>
           /\ in_flight' = 0
           /\ pc' \in {"call_api", "done"}
           /\ attempts' = Append(attempts, [model |-> model, reason |-> "transport"])
           /\ i < Len(models_to_try) =>
                (pc' = "call_api" /\ i' = i + 1 /\ call' = call))]_vars

C6_Witness ==
    /\ pc = "call_api"
    /\ i > 1
    /\ attempts # << >>
    /\ attempts[Len(attempts)].reason = "transport"
    /\ attempts[Len(attempts)].model = models_to_try[i - 1]
    /\ steps = << >>

\* C7: a candidate that parses and fails the required-field check, wherever it
\* came from, ends the attempt as failed with that required-field failure: no
\* further step runs on the response.
C7_RequiredFieldFailureEndsAttempt ==
    \A k \in 1..Len(steps) :
        (steps[k].parsed /\ steps[k].valid \in RequiredFieldReasons) =>
            /\ k = Len(steps)
            /\ pc \in {"call_api", "done"}
            /\ attempts # << >>
            /\ attempts[Len(attempts)].reason = steps[k].valid

\* C8: a candidate without the personal_information section, or whose
\* personal_information is no object or lacks a non-empty first_name or a
\* non-empty last_name, fails validation, whatever optional fields it has.
Missing(v) == v \in {Absent, JNone, JStr(<< >>)}

C8_MissingIdentityFailsValidation ==
    ret # "unset" =>
        ((arg.pi = Absent \/ arg.pi.t # "obj" \/ Missing(arg.f) \/ Missing(arg.l))
            => ret # "ok")

C8_Witness ==
    /\ ret = "missing_last_name"
    /\ arg.f = JStr(<<"A">>)
    /\ HasKey(arg.data, <<"e">>)
    /\ HasKey(arg.data, <<"s">>)
    /\ HasKey(arg.pi, <<"m">>)

Truncated(o) ==
    \/ o.finish_reason = "length"
    \/ ~EndsWith(Strip(o.content), RB)
    \/ BraceCount(o.content, Len(o.content)) # 0
    \/ BracketCount(o.content, Len(o.content)) # 0
    \/ FindLastCompleteStructure(Strip(o.content)) # Len(Strip(o.content))

ContinuationCalled == \E k \in 1..Len(steps) : steps[k].step = "continue"

DirectParseFailed == steps # << >> /\ steps[1].step = "parse" /\ ~steps[1].parsed

\* C11: a continuation call is issued for an attempt only if the response
\* failed the direct parse, is truncated and holds at least two of the three
\* markers; a complete malformed response never triggers one.
C11_ContinuationOnlyForTruncated ==
    (InAttempt /\ ContinuationCalled) =>
        /\ DirectParseFailed
        /\ HasValidStartingStructure(ai_response)
        /\ Truncated(provider[model])

\* C12 as claimed: whenever a response fails the direct parse, is truncated and
\* passes the marker gate, a continuation call to the same model is issued
\* before any repair strategy runs for the attempt.
C12_ContinuationBeforeRepair ==
    (/\ InAttempt
     /\ DirectParseFailed
     /\ Truncated(provider[model])
     /\ HasValidStartingStructure(ai_response)
     /\ pc \in {"fix_common", "extract", "complete"})
    => (Len(steps) >= 3 /\ steps[2].step = "continue" /\ steps[3].step = "splice")

\* C12 as amended: whenever a response fails the direct parse, is truncated,
\* passes the marker gate and has a position at which the brace and bracket
\* depths are both zero, a continuation call to the same model is issued and
\* answered before any repair strategy runs for the attempt; without such a
\* position no continuation call is made and the repair strategies run at once.
C12_ContinuationBeforeRepairWhenPrefix ==
    (/\ InAttempt
     /\ DirectParseFailed
     /\ Truncated(provider[model])
     /\ HasValidStartingStructure(ai_response)
     /\ pc \in {"fix_common", "extract", "complete"})
    => IF FindLastCompleteStructure(ai_response) # 0
       THEN /\ Len(steps) >= 3
            /\ steps[2].step = "continue"
            /\ steps[3].step = "splice"
            /\ \A k \in 1..3 : ~IsRepair(steps[k])
            /\ in_flight = 0
       ELSE /\ ~ContinuationCalled
            /\ steps[2].step = "no_continuation"

C12_Witness ==
    /\ pc = "fix_common"
    /\ provider[model].finish_reason = "length"
    /\ HasValidStartingStructure(ai_response)
    /\ Len(steps) = 3
    /\ steps[2].step = "continue"

\* C13: if the continuation call fails or the spliced text does not parse, the
\* repair strategies run on the same, non-continued response text, and the
\* attempt ends as it would have without continuation: in success with the
\* same record, or failed.
C13_FailedContinuationChangesNothing ==
    (\E k \in 1..Len(steps) : steps[k].step = "splice" /\ ~steps[k].parsed) =>
        /\ steps[1].input = ai_response
        /\ \A j \in 1..Len(steps) : IsRepair(steps[j]) => steps[j].input = ai_response
        /\ pc \in {"call_api", "done"} =>
              LET o == RepairOutcome(ai_response)
              IN  IF o.success
                  THEN /\ pc = "done"
                       /\ result = Returned(o.data, invoked[Len(invoked)])
                  ELSE /\ result.outcome # "returned"
                       /\ attempts[Len(attempts)] =
                              [model |-> invoked[Len(invoked)], reason |-> o.reason]

C13_Witness ==
    /\ pc = "done"
    /\ result.outcome = "returned"
    /\ \E k \in 1..Len(steps) : steps[k].step = "splice" /\ ~steps[k].parsed
    /\ \E k \in 1..Len(steps) : IsRepair(steps[k]) /\ steps[k].valid = "ok"

\* C14: for every response treated as not truncated (the finish reason is not
\* length and the text ends with '}', so no truncation fix is applied), the
\* brace and bracket depths at the end of the text are zero.
C14_NotTruncatedIsBalanced ==
    (/\ InAttempt
     /\ provider[model].finish_reason # "length"
     /\ EndsWith(Strip(raw_response), RB))
    => /\ ai_response = raw_response
       /\ BraceCount(raw_response, Len(raw_response)) = 0
       /\ BracketCount(raw_response, Len(raw_response)) = 0

\* C17: a length-limited response made of a complete personal_information
\* object followed by a top-level array cut right after its '[' is repaired by
\* appending ']' then '}', parses, passes validation and ends the extraction
\* in success on that model, no other model being invoked after it.
C17_CutInArrayIsClosedAndSucceeds ==
    (raw_response = TxtCutInArray /\ pc # "await_api") =>
        /\ ai_response = TxtCutInArray \o <<RK, RB>>
        /\ pc \in {"parse", "done"}
        /\ pc = "done" =>
              /\ steps = <<Step("parse", ai_response, TRUE, "ok")>>
              /\ result = Returned(JsonLoads(ai_response).v, invoked[Len(invoked)])
              /\ ValidateRequiredFields(result.ai_data) = "ok"
              /\ Get(result.ai_data, <<"e">>) = JArr(<< >>)

C17_Witness ==
    /\ pc = "done"
    /\ raw_response = TxtCutInArray
    /\ result.outcome = "returned"
    /\ invoked = <<"primary">>

NoStrayClosers(t) ==
    \A n \in 1..Len(t) : BraceCount(t, n) >= 0 /\ BracketCount(t, n) >= 0

Balanced(t) == BraceCount(t, Len(t)) = 0 /\ BracketCount(t, Len(t)) = 0

StartsWith(t, prefix) ==
    Len(t) >= Len(prefix) /\ SubSeq(t, 1, Len(prefix)) = prefix

\* the stripped text closed with its missing brackets, then braces
Closed(t) ==
    Strip(t) \o Repeat(RK, BracketCount(Strip(t), Len(Strip(t))))
             \o Repeat(RB, BraceCount(Strip(t), Len(Strip(t))))

\* C15 as claimed: for every text with unmatched opening braces and brackets
\* and no stray closers, completion-by-closing returns a string whose depths
\* are zero at its end and which begins with the whole stripped input.
C15_CompletionKeepsInput ==
    (ret.applied >= 1 /\ NoStrayClosers(arg)) =>
        /\ ret.out.complete.some
        /\ Balanced(ret.out.complete.s)
        /\ StartsWith(ret.out.complete.s, Strip(arg))
        /\ Balanced(ret.out.fix_truncated.s)
        /\ StartsWith(ret.out.fix_truncated.s, Strip(arg))

\* C15 as amended: for every text with no stray closers, the fix on receipt
\* returns a string whose depths are zero at its end, and so does
\* completion-by-closing whenever it returns a string.  When the stripped
\* text has a position at which both depths are zero, both return the text
\* cut at the last such position (what follows is dropped).  When it has
\* none, the fix on receipt returns the whole stripped text followed by the
\* missing ']'s then '}'s, and completion-by-closing returns the same when
\* that parses, a string only if its key-quoted form parses, nothing otherwise.
C15_CompletionClosesOrCuts ==
    (ret.applied >= 1 /\ NoStrayClosers(arg)) =>
        LET t == Strip(arg)
            last == FindLastCompleteStructure(t)
            ft == ret.out.fix_truncated.s
            ct == ret.out.complete
        IN  /\ Balanced(ft)
            /\ ct.some => Balanced(ct.s)
            /\ IF last # 0
               THEN /\ ft = SubSeq(t, 1, last)
                    /\ ct = Some(SubSeq(t, 1, last))
               ELSE /\ ft = Closed(arg)
                    /\ StartsWith(ft, t)
                    /\ JsonLoads(Closed(arg)).ok => ct = Some(Closed(arg))
                    /\ (ct.some /\ ~JsonLoads(Closed(arg)).ok) =>
                          /\ JsonLoads(ct.s).ok
                          /\ ct.s = FixCommonJsonIssues(Closed(arg))

C15_Witness ==
    /\ ret.applied = 1
    /\ NoStrayClosers(arg)
    /\ FindLastCompleteStructure(Strip(arg)) = 0
    /\ BraceCount(arg, Len(arg)) > 0
    /\ BracketCount(arg, Len(arg)) > 0
    /\ ret.out.complete = Some(Closed(arg))

\* C16: each repair strategy applied to its own successful (parseable) output
\* returns that output unchanged, and key-quoting applied to already-valid
\* JSON leaves it unchanged.
C16_RepairIsIdempotent ==
    ret.applied = 2 =>
        /\ JsonLoads(ret.out.fix_common.s).ok =>
              ret.again.fix_common = ret.out.fix_common
        /\ ret.out.extract.some => ret.again.extract = ret.out.extract
        /\ (ret.out.complete.some /\ JsonLoads(ret.out.complete.s).ok) =>
              ret.again.complete = ret.out.complete
        /\ JsonLoads(arg).ok => ret.out.fix_common.s = arg

\* C18: a candidate that passes the required-field check is never rejected
\* because another top-level field or an optional personal_information field
\* is missing or has the wrong type: the format check raises nothing, the
\* mismatches are warnings, and the candidate is accepted.
C18_FormatMismatchesOnlyWarn ==
    (ret # "unset" /\ ValidateRequiredFields(arg.data) = "ok") =>
        /\ ret = "ok"
        /\ ~ValidateJsonFormat(arg.data).raised
        /\ arg.data.t = "obj" /\ HasKey(arg.data, PERSONAL_INFORMATION)

C18_Witness ==
    /\ ret = "ok"
    /\ {<<"type", <<"e">>>>, <<"type", <<"s">>>>, <<"missing", <<"k">>>>,
        <<"type_personal", <<"m">>>>, <<"type_personal", FIRST_NAME>>,
        <<"missing_personal", <<"a">>>>}
          \subseteq ValidateJsonFormat(arg.data).warnings

\* what is left of the context window of arg.model after the prompt and
\* the safety buffer
RemainingContext ==
    TokenLimit(arg.model, 8192) - (arg.prompt_length \div 4) - SAFETY_BUFFER_TOKENS

\* C19: the max_tokens of the continuation call is strictly smaller than the
\* max_tokens of the main completion call of the same attempt.
C19_ContinuationBudgetIsSmaller ==
    ret.calls = 2 => ret.continuation_max_tokens < ret.max_tokens

\* C20 as claimed: estimated prompt tokens + safety buffer + max_tokens never
\* exceeds the model's context-window limit.
C20_BudgetWithinContext ==
    ret.calls >= 1 =>
        (arg.prompt_length \div 4) + SAFETY_BUFFER_TOKENS + ret.max_tokens
            <= TokenLimit(arg.model, 8192)

\* C20 as amended: max_tokens is never below the floor MIN_MAX_TOKENS;
\* estimated prompt tokens + safety buffer + max_tokens does not exceed the
\* model's context-window limit whenever the context that remains after the
\* prompt and the buffer is at least the floor, and otherwise max_tokens is the
\* floor itself, which exceeds what remains.
C20_BudgetWithinContextAboveFloor ==
    ret.calls >= 1 =>
        /\ ret.max_tokens >= MIN_MAX_TOKENS
        /\ ret.max_tokens <= Max2(BaseResponseTokens(arg.prompt_length), MIN_MAX_TOKENS)
        /\ IF RemainingContext >= MIN_MAX_TOKENS
           THEN (arg.prompt_length \div 4) + SAFETY_BUFFER_TOKENS + ret.max_tokens
                    <= TokenLimit(arg.model, 8192)
           ELSE ret.max_tokens = MIN_MAX_TOKENS

C20_Witness ==
    /\ ret.calls = 1
    /\ RemainingContext >= MIN_MAX_TOKENS
    /\ ret.max_tokens = RemainingContext
    /\ ret.max_tokens < BaseResponseTokens(arg.prompt_length)

\* C21: for every model and prompt length, _calculate_max_tokens returns a
\* value that is at least the floor MIN_MAX_TOKENS and at most the base
\* response allocation selected for the prompt length, one of 15000, 20000,
\* 25000 and 30000.
C21_BudgetBetweenFloorAndBase ==
    ret.calls >= 1 =>
        /\ MIN_MAX_TOKENS <= ret.max_tokens
        /\ ret.max_tokens <= BaseResponseTokens(arg.prompt_length)
        /\ BaseResponseTokens(arg.prompt_length) \in {15000, 20000, 25000, 30000}

C21_Witness ==
    /\ ret.calls = 1
    /\ RemainingContext < 0
    /\ ret.max_tokens = MIN_MAX_TOKENS
    /\ BaseResponseTokens(arg.prompt_length) = 25000

\* the step gave a candidate that parsed and passed validation
CandidateAccepted(s) == s.parsed /\ s.valid = "ok"

\* the candidate a step of _parse_ai_response made of the text it was given,
\* for the answer o of the attempt's model
CandidateOf(s, o) ==
    CASE s.step = "parse" -> Some(s.input)
      [] s.step = "splice" ->
            IF o.cont_status = 200 /\ o.cont_content # << >>
            THEN ConcatenateResponses(s.input, o.cont_content) ELSE None
      [] s.step = "fix_common" -> Some(FixCommonJsonIssues(s.input))
      [] s.step = "extract" -> ExtractValidJson(s.input)
      [] s.step = "complete" -> CompleteTruncatedJson(s.input)
      [] OTHER -> None

\* C22: on success, model_used is the model whose completion response produced
\* the returned record: it is the last model sent a completion call, that call
\* was answered with status 200, and the record is what a step of the attempt
\* parsed out of the content of that answer; this for every position of the
\* model in the list.
C22_ModelUsedProducedTheRecord ==
    result.outcome = "returned" =>
        LET m == result.model_used
            last == steps[Len(steps)]
        IN  /\ m = invoked[Len(invoked)]
            /\ m = models_to_try[i]
            /\ provider[m].status = 200
            /\ raw_response = provider[m].content
            /\ ai_response = Content(provider[m])
            /\ last.input = ai_response
            /\ last.parsed /\ last.valid = "ok"
            /\ CandidateOf(last, provider[m]).some
            /\ result.ai_data = JsonLoads(CandidateOf(last, provider[m]).s).v

C22_Witness ==
    /\ result.outcome = "returned"
    /\ result.model_used = fallback_models[2]
    /\ steps[Len(steps)].step = "splice"
    /\ \A k \in 1..2 : provider[models_to_try[k]].status = 200

\* C23: within one extraction at most one network call (main completion or
\* continuation) is in flight at any time, none while a parse or repair step
\* runs, and a repair strategy starts only after the previous strategy of the
\* same attempt has finished and failed.
C23_OneCallInFlightRepairsInTurn ==
    /\ in_flight \in {0, 1}
    /\ in_flight = 1 <=> pc \in {"await_api", "await_continuation"}
    /\ \A k \in 1..Len(steps) :
          IsRepair(steps[k]) =>
              \A j \in 1..(k - 1) : ~(steps[j].parsed /\ steps[j].valid = "ok")
    /\ \A k \in 1..Len(RepairSteps) :
          /\ Cardinality({j \in 1..Len(RepairSteps) :
                            RepairSteps[j].step = RepairSteps[k].step}) = 1
          /\ k > 1 => ~CandidateAccepted(RepairSteps[k - 1])
    /\ pc \in {"extract", "complete"} =>
          (RepairSteps # << >> /\ ~CandidateAccepted(RepairSteps[Len(RepairSteps)]))

C23_Witness ==
    /\ pc = "complete"
    /\ Len(RepairSteps) = 2
    /\ \E k \in 1..Len(steps) : steps[k].step = "continue"
    /\ in_flight = 0

\* C25: the prefix placed in the continuation request and used in the splice
\* is a prefix of the provider's original completion text for the attempt; it
\* holds no closer or other character added by a repair step.
C25_ContinuationPrefixIsOfOriginal ==
    \A k \in 1..Len(steps) :
        steps[k].step = "continue" =>
            /\ StartsWith(Strip(raw_response), steps[k].input)
            /\ StartsWith(Strip(raw_response),
                          RStripComma(RStrip(steps[k].input)))

RECURSIVE OpenStructures(_, _)
\* the openers of the first n characters of t that are still open, in the
\* order of their opening (a closer closes the innermost one)
OpenStructures(t, n) ==
    IF n = 0 THEN << >>
    ELSE LET open == OpenStructures(t, n - 1)
         IN  IF t[n] \in {LB, LK} THEN Append(open, t[n])
             ELSE IF t[n] \in {RB, RK} /\ open # << >>
                 THEN SubSeq(open, 1, Len(open) - 1)
             ELSE open

\* every closer of t closes the innermost open structure, of its own kind
ClosersMatch(t) ==
    \A n \in 1..Len(t) :
        t[n] \in {RB, RK} =>
            LET open == OpenStructures(t, n - 1)
            IN  /\ open # << >>
                /\ open[Len(open)] = (IF t[n] = RB THEN LB ELSE LK)

\* the closers of the open structures, innermost first
NestedClosers(open) ==
    [k \in 1..Len(open) |-> IF open[Len(open) + 1 - k] = LB THEN RB ELSE RK]

\* C26: for every truncated text with no stray closers, the closers appended
\* by completion-by-closing (and by the fix on receipt) close the still-open
\* structures in reverse order of their opening, also when an object is open
\* inside an open array.
C26_ClosersAreNested ==
    (/\ ret.applied >= 1
     /\ NoStrayClosers(arg)
     /\ ClosersMatch(Strip(arg))
     /\ FindLastCompleteStructure(Strip(arg)) = 0)
    => LET t == Strip(arg)
           nested == t \o NestedClosers(OpenStructures(t, Len(t)))
       IN  /\ ret.out.fix_truncated.s = nested
           /\ JsonLoads(nested).ok => ret.out.complete = Some(nested)

\* C27: every success result carries a record that is a JSON object with a
\* personal_information object whose first_name and last_name are both
\* non-empty, whichever step produced the record: the direct parse, the
\* continuation splice or a repair strategy.
C27_SuccessCarriesIdentity ==
    result.outcome = "returned" =>
        /\ result.success
        /\ result.ai_data.t = "obj"
        /\ HasKey(result.ai_data, PERSONAL_INFORMATION)
        /\ Get(result.ai_data, PERSONAL_INFORMATION).t = "obj"
        /\ Truthy(Get(Get(result.ai_data, PERSONAL_INFORMATION), FIRST_NAME))
        /\ Truthy(Get(Get(result.ai_data, PERSONAL_INFORMATION), LAST_NAME))
        /\ steps[Len(steps)].step \in {"parse", "splice", "fix_common", "extract", "complete"}

C27_Witness ==
    /\ result.outcome = "returned"
    /\ steps[Len(steps)].step = "extract"
    /\ \E k \in 1..Len(attempts) : attempts[k].reason = "missing_last_name"

\* C28: whenever the fix on receipt or completion-by-closing returns a proper
\* prefix of its (stripped) input, the prefix ends at a closing brace or
\* bracket and holds a '{': the characters before the first opener are no
\* complete position.
C28_CutKeepsACompleteStructure ==
    ret.applied >= 1 =>
        LET t == Strip(arg)
            ProperPrefix(x) == Len(x) < Len(t) /\ StartsWith(t, x)
            EndsAtCloser(x) == /\ x # << >>
                               /\ x[Len(x)] \in {RB, RK}
                               /\ \E n \in 1..Len(x) : x[n] \in {LB, LK}
        IN  /\ ProperPrefix(ret.out.fix_truncated.s) =>
                  EndsAtCloser(ret.out.fix_truncated.s)
            /\ (ret.out.complete.some /\ ProperPrefix(ret.out.complete.s)) =>
                  EndsAtCloser(ret.out.complete.s)
            /\ (\E n \in 1..Len(t) : t[n] = LB) =>
                  /\ \E n \in 1..Len(ret.out.fix_truncated.s) :
                        ret.out.fix_truncated.s[n] = LB
                  /\ ret.out.complete.some =>
                        \E n \in 1..Len(ret.out.complete.s) : ret.out.complete.s[n] = LB

\* C29: with the fallback flag disabled, an extraction issues exactly one main
\* completion call, to the primary model, and a failure of that attempt is
\* reported to the caller without any fallback model being invoked.
C29_NoFallbackWhenDisabled ==
    ~enable_fallback_models =>
        /\ invoked \in {<< >>, <<primary_model>>}
        /\ pc \notin {"start", "call_api"} => invoked = <<primary_model>>
        /\ Len(attempts) <= 1
        /\ attempts # << >> =>
              /\ pc = "done"
              /\ attempts[1].model = primary_model
              /\ result = Raised(attempts[1].reason)
              /\ result.models_tried = <<primary_model>>
        /\ result.outcome = "raised" => Len(attempts) = 1

C29_Witness ==
    /\ ~enable_fallback_models
    /\ pc = "done"
    /\ result.outcome = "raised"
    /\ attempts[1].reason = "structural_parse_failure"

\* the most main completion calls an extraction makes: one pass over the
\* model list for the primary call and one for each fallback model
MaxCalls ==
    Len(models_to_try) * (IF enable_fallback_models THEN 1 + Len(fallback_models) ELSE 1)

\* C30: provided every network call eventually returns or times out, every
\* extraction eventually reaches a terminal outcome, a success or a failure;
\* the orchestrator never goes over the model list without end.
C30_ExtractionTerminates ==
    /\ [](Len(invoked) <= MaxCalls)
    /\ <>(pc = "done" /\ result.outcome \in {"returned", "raised"} /\ in_flight = 0)

C30_Witness ==
    /\ pc = "done"
    /\ result.outcome = "raised"
    /\ Len(invoked) = MaxCalls
    /\ enable_fallback_models
    /\ \E k \in 1..Len(steps) : steps[k].step = "continue"

\* C24: when two extractions run interleaved on one AIProcessor, each one's
\* sequence of model invocations and its outcome are those of an extraction
\* that runs alone on the same answers, and the response text an extraction
\* works on is the answer of its own current model: nothing one of them wrote
\* is read by the other.
C24_InterleavedRunsAsAlone ==
    /\ pc = "done" => (invoked = AloneRun.invoked /\ result = AloneRun.result)
    /\ ret.pc = "done" =>
          (ret.invoked = AloneRun.invoked /\ ret.result = AloneRun.result)
    /\ InAttempt => /\ raw_response = provider[model].content
                    /\ ai_response = Content(provider[model])
                    /\ invoked[Len(invoked)] = model
    /\ \A k \in 1..Len(attempts) : attempts[k].model = invoked[k]

C24_Witness ==
    /\ pc = "done"
    /\ result.outcome = "returned"
    /\ result.model_used = fallback_models[1]
    /\ ret.pc = "await_continuation"
    /\ ret.i = 1
    /\ ret.ai_response # ai_response

=============================================================================
